---------------------------- MODULE Spec2Model ----------------------------
(***************************************************************************)
(* State hydration (getStateAsync and its helpers) and the timing registry *)
(* (safeConsoleTime / safeConsoleTimeEnd / safeTimedExecution) of          *)
(* src/app/utils/steemApi.js.                                              *)
(*                                                                         *)
(* JavaScript strings are TLA+ strings: \o is concatenation, SubSeq(s,i,i) *)
(* is the character s[i-1].  JavaScript's null is the value NULL.          *)
(***************************************************************************)
EXTENDS Integers, Sequences, FiniteSets, TLC

VARIABLES
    ENABLE_TIMING,  \* the module constant read once from TIME_LOG
    activeTimers,   \* the Map of the registry: label -> who registered it
    tmr,            \* callers of the registry API, one record per caller
    inv             \* getStateAsync invocations, one record per invocation

vars == <<ENABLE_TIMING, activeTimers, tmr, inv>>

-----------------------------------------------------------------------------
(* Bounds *)

\* Date.now() yields a value in 0..MaxNow
MaxNow == 0
\* Math.random() yields one of MaxRandom + 1 values
MaxRandom == 1
\* number of callers of the registry API
NumTimers == 2

-----------------------------------------------------------------------------
(* JavaScript values *)

NULL == "<null>"
UNDEFINED == "<undefined>"

\* truthiness of a string, null or undefined: `if (requestId)`, `tag && ...`
Truthy(v) == v \notin {NULL, UNDEFINED, ""}

\* a template literal's ${v}
Interp(v) == IF v = NULL THEN "null" ELSE v

\* s[i] with a 0-based index; "" stands for undefined (it equals no character)
CharAt(s, i) == IF i + 1 <= Len(s) THEN SubSeq(s, i + 1, i + 1) ELSE ""

\* s.slice(1)
Slice1(s) == SubSeq(s, 2, Len(s))

RECURSIVE Split(_, _)
\* s.split(sep) for a one-character separator
Split(s, sep) ==
    LET at == {i \in 1..Len(s) : SubSeq(s, i, i) = sep}
    IN  IF at = {} THEN <<s>>
        ELSE LET i == CHOOSE j \in at : \A k \in at : j <= k
             IN  <<SubSeq(s, 1, i - 1)>> \o Split(SubSeq(s, i + 1, Len(s)), sep)

\* list.includes(x)
Includes(list, x) == \E i \in 1..Len(list) : list[i] = x

\* the map m after m[k] = v
MapSet(m, k, v) == (k :> v) @@ m

\* the map m after m.delete(k)
MapDelete(m, k) == [x \in (DOMAIN m) \ {k} |-> m[x]]

EmptyMap == <<>>

-----------------------------------------------------------------------------
(* Timing registry *)

Base36Digits == <<"0", "1", "2", "3", "4", "5", "6", "7", "8", "9">>

\* Math.random().toString(36).substr(2, 9) for the k-th random value
RandomSuffix(k) == Base36Digits[(k % 10) + 1]

\* what one call reads from the clock and the random generator
Entropy == [now : 0..MaxNow, rnd : 0..MaxRandom]

generateUniqueLabelShared(baseLabel, requestId, e) == baseLabel

generateUniqueLabelFresh(baseLabel, requestId, e) ==
    baseLabel \o "_" \o ToString(e.now) \o "_" \o RandomSuffix(e.rnd)

generateUniqueLabel(baseLabel, requestId, e) ==
    IF Truthy(requestId)
    THEN baseLabel \o "_" \o requestId
    ELSE baseLabel \o "_" \o ToString(e.now) \o "_" \o RandomSuffix(e.rnd)

safeConsoleTimeAlways(enabled, timers, who, label, requestId, e) ==
    LET uniqueLabel == generateUniqueLabel(label, requestId, e)
    IN  [timers |-> MapSet(timers, uniqueLabel, who), ret |-> uniqueLabel]

\* the registry and the value returned after safeConsoleTime(label, requestId)
safeConsoleTime(enabled, timers, who, label, requestId, e) ==
    IF enabled
    THEN LET uniqueLabel == generateUniqueLabel(label, requestId, e)
         IN  [timers |-> MapSet(timers, uniqueLabel, who), ret |-> uniqueLabel]
    ELSE [timers |-> timers, ret |-> NULL]

safeConsoleTimeEndRederives(enabled, timers, label, requestId, e) ==
    IF enabled
    THEN LET uniqueLabel == generateUniqueLabel(label, requestId, e)
         IN  IF uniqueLabel \in DOMAIN timers
             THEN [timers |-> MapDelete(timers, uniqueLabel), warned |-> FALSE]
             ELSE [timers |-> timers, warned |-> TRUE]
    ELSE [timers |-> timers, warned |-> FALSE]

safeConsoleTimeEndClears(enabled, timers, label, requestId, e) ==
    IF enabled
    THEN LET uniqueLabel ==
                 IF label \notin DOMAIN timers
                 THEN generateUniqueLabel(label, requestId, e)
                 ELSE label
         IN  IF uniqueLabel \in DOMAIN timers
             THEN [timers |-> MapDelete(timers, uniqueLabel), warned |-> FALSE]
             ELSE [timers |-> EmptyMap, warned |-> TRUE]
    ELSE [timers |-> timers, warned |-> FALSE]

\* the registry after safeConsoleTimeEnd(label, requestId), and whether it warned
safeConsoleTimeEnd(enabled, timers, label, requestId, e) ==
    IF enabled
    THEN LET uniqueLabel ==
                 IF label \notin DOMAIN timers
                 THEN generateUniqueLabel(label, requestId, e)
                 ELSE label
         IN  IF uniqueLabel \in DOMAIN timers
             THEN [timers |-> MapDelete(timers, uniqueLabel), warned |-> FALSE]
             ELSE [timers |-> timers, warned |-> TRUE]
    ELSE [timers |-> timers, warned |-> FALSE]

getActiveTimerCount == Cardinality(DOMAIN activeTimers)

-----------------------------------------------------------------------------
(* Callers of the registry API *)

Timers == 1..NumTimers
BaseLabels == {"op", "op_a"}
RequestIds == {"a", "b", "a_b"}
\* the requestId argument: an id, or absent (null, which "" behaves like)
RequestIdArgs == RequestIds \cup {NULL}
\* how the timed operation of safeTimedExecution settles
Operations == {[ok |-> TRUE, value |-> "result"], [ok |-> FALSE, value |-> "failure"]}

IdleTimer ==
    [pc |-> "idle", base |-> NULL, id |-> NULL, token |-> NULL,
     warned |-> FALSE, out |-> [ok |-> TRUE, value |-> NULL]]

\* the clock and random values a call with this requestId can read; a call
\* with a request id reads neither
Draw(requestId) ==
    IF Truthy(requestId) THEN {[now |-> 0, rnd |-> 0]} ELSE Entropy

\* safeConsoleTime(base, id)
Start(i, base, id) ==
    /\ tmr[i].pc = "idle"
    /\ \E e \in Draw(id) :
        LET r == safeConsoleTime(ENABLE_TIMING, activeTimers, i, base, id, e)
        IN  /\ activeTimers' = r.timers
            /\ tmr' = [tmr EXCEPT ![i] = [@ EXCEPT !.pc = "started", !.base = base,
                                                   !.id = id, !.token = r.ret]]
    /\ UNCHANGED <<ENABLE_TIMING, inv>>

\* safeConsoleTimeEnd(base, id) with the arguments of the caller's start
Stop(i) ==
    /\ tmr[i].pc = "started"
    /\ \E e \in Draw(tmr[i].id) :
        LET r == safeConsoleTimeEnd(ENABLE_TIMING, activeTimers,
                                    tmr[i].base, tmr[i].id, e)
        IN  /\ activeTimers' = r.timers
            /\ tmr' = [tmr EXCEPT ![i] = [@ EXCEPT !.pc = "stopped", !.token = NULL,
                                                   !.warned = r.warned]]
    /\ UNCHANGED <<ENABLE_TIMING, inv>>

\* safeConsoleTimeEnd(base, id) by a caller that started nothing
StrayStop(i, base, id) ==
    /\ tmr[i].pc = "idle"
    /\ \E e \in Draw(id) :
        LET r == safeConsoleTimeEnd(ENABLE_TIMING, activeTimers, base, id, e)
        IN  /\ activeTimers' = r.timers
            /\ tmr' = [tmr EXCEPT ![i] = [@ EXCEPT !.pc = "strayed",
                                                   !.warned = r.warned]]
    /\ UNCHANGED <<ENABLE_TIMING, inv>>

\* safeTimedExecution(base, fn, id) up to its `await fn()`
WrapCall(i, base, id) ==
    /\ tmr[i].pc = "idle"
    /\ \E e \in Draw(id) :
        LET r == IF ~ENABLE_TIMING
                 THEN [timers |-> activeTimers, ret |-> NULL]
                 ELSE safeConsoleTime(ENABLE_TIMING, activeTimers, i, base, id, e)
        IN  /\ activeTimers' = r.timers
            /\ tmr' = [tmr EXCEPT ![i] = [@ EXCEPT !.pc = "wrapping", !.base = base,
                                                   !.id = id, !.token = r.ret]]
    /\ UNCHANGED <<ENABLE_TIMING, inv>>

\* safeTimedExecution from the settlement of fn() to its own settlement:
\* `finally { safeConsoleTimeEnd(uniqueLabel) }`, then the result or the failure
WrapSettle(i, op) ==
    /\ tmr[i].pc = "wrapping"
    /\ \E e \in Draw(NULL) :
        LET r == IF ~ENABLE_TIMING
                 THEN [timers |-> activeTimers, warned |-> FALSE]
                 ELSE safeConsoleTimeEnd(ENABLE_TIMING, activeTimers,
                                         tmr[i].token, NULL, e)
        IN  /\ activeTimers' = r.timers
            /\ tmr' = [tmr EXCEPT ![i] = [@ EXCEPT !.pc = "wrapped", !.base = NULL,
                                                   !.id = NULL, !.token = NULL,
                                                   !.warned = r.warned, !.out = op]]
    /\ UNCHANGED <<ENABLE_TIMING, inv>>

InitReg ==
    /\ ENABLE_TIMING \in BOOLEAN
    /\ activeTimers = EmptyMap
    /\ tmr = [i \in Timers |-> IdleTimer]
    /\ inv = <<>>

NextReg ==
    \E i \in Timers :
        \/ \E base \in BaseLabels, id \in RequestIdArgs : Start(i, base, id)
        \/ Stop(i)
        \/ \E base \in BaseLabels, id \in RequestIdArgs : StrayStop(i, base, id)
        \/ \E base \in BaseLabels, id \in RequestIdArgs : WrapCall(i, base, id)
        \/ \E op \in Operations : WrapSettle(i, op)

SpecReg == InitReg /\ [][NextReg]_vars

-----------------------------------------------------------------------------
(* Route classifier *)

sorts == <<"trending", "promoted", "hot", "created", "payout", "payout_comments", "muted">>
acct_tabsWithoutPayout == <<"blog", "feed", "posts", "comments", "replies">>

acct_tabs == <<"blog", "feed", "posts", "comments", "replies", "payout">>

\* `key = null`; a key is otherwise the pair <<part[1], part[2]>>
NoKey == <<>>

StripUrlKeepsTrailingSlash(url) ==
    LET u1 == Split(url, "?")[1]
        u2 == IF Len(u1) > 0 /\ CharAt(u1, 0) = "/" THEN SubSeq(u1, 2, Len(u1)) ELSE u1
    IN  IF u2 = "" THEN "trending" ELSE u2

StripUrlKeepsBlank(url) ==
    LET u1 == Split(url, "?")[1]
        u2 == IF Len(u1) > 0 /\ CharAt(u1, 0) = "/" THEN SubSeq(u1, 2, Len(u1)) ELSE u1
    IN  IF Len(u2) > 0 /\ CharAt(u2, Len(u2) - 1) = "/"
        THEN SubSeq(u2, 1, Len(u2) - 1) ELSE u2

\* the url without its query string and without one leading and one trailing
\* slash; the blank url is `trending`
StripUrl(url) ==
    LET u1 == Split(url, "?")[1]
        u2 == IF Len(u1) > 0 /\ CharAt(u1, 0) = "/" THEN SubSeq(u1, 2, Len(u1)) ELSE u1
        u3 == IF Len(u2) > 0 /\ CharAt(u2, Len(u2) - 1) = "/"
              THEN SubSeq(u2, 1, Len(u2) - 1) ELSE u2
    IN  IF u3 = "" THEN "trending" ELSE u3

parsePathPlainThreadTag(url) ==
    LET part == Split(StripUrl(url), "/")
        parts == Len(part)
        none == [page |-> NULL, tag |-> NULL, sort |-> NULL, key |-> NoKey]
    IN  IF parts = 1 /\ Includes(sorts, part[1])
        THEN [none EXCEPT !.page = "posts", !.sort = part[1], !.tag = ""]
        ELSE IF parts = 2 /\ Includes(sorts, part[1])
        THEN [none EXCEPT !.page = "posts", !.sort = part[1], !.tag = part[2]]
        ELSE IF parts = 3 /\ CharAt(part[2], 0) = "@" /\ ~Includes(sorts, part[1])
        THEN [none EXCEPT !.page = "thread", !.tag = part[1],
                          !.key = <<part[2], part[3]>>]
        ELSE IF parts = 1 /\ CharAt(part[1], 0) = "@"
        THEN [none EXCEPT !.page = "account", !.sort = "blog", !.tag = part[1]]
        ELSE IF parts = 2 /\ CharAt(part[1], 0) = "@"
        THEN IF Includes(acct_tabs, part[2])
             THEN [none EXCEPT !.page = "account", !.sort = part[2], !.tag = part[1]]
             ELSE [none EXCEPT !.tag = part[1]]
        ELSE none

parsePath(url) ==
    LET part == Split(StripUrl(url), "/")
        parts == Len(part)
        none == [page |-> NULL, tag |-> NULL, sort |-> NULL, key |-> NoKey]
    IN  IF parts = 1 /\ Includes(sorts, part[1])
        THEN [none EXCEPT !.page = "posts", !.sort = part[1], !.tag = ""]
        ELSE IF parts = 2 /\ Includes(sorts, part[1])
        THEN [none EXCEPT !.page = "posts", !.sort = part[1], !.tag = part[2]]
        ELSE IF parts = 3 /\ CharAt(part[2], 0) = "@"
        THEN [none EXCEPT !.page = "thread", !.tag = part[1],
                          !.key = <<part[2], part[3]>>]
        ELSE IF parts = 1 /\ CharAt(part[1], 0) = "@"
        THEN [none EXCEPT !.page = "account", !.sort = "blog", !.tag = part[1]]
        ELSE IF parts = 2 /\ CharAt(part[1], 0) = "@"
        THEN IF Includes(acct_tabs, part[2])
             THEN [none EXCEPT !.page = "account", !.sort = part[2], !.tag = part[1]]
             ELSE [none EXCEPT !.tag = part[1]]
        ELSE none

\* the longest path, in segments, handed to parsePath
MaxSegments == 4

\* the segments of the paths of one and two segments
PathSegments ==
    {"trending", "promoted", "hot", "created", "payout", "payout_comments", "muted",
     "blog", "feed", "posts", "comments", "replies", "@al", "@", "settings", "t"}

\* the segments of the longer paths
DeepSegments == {"hot", "@al", "t", "blog"}

SegmentLists ==
    UNION {[1..n -> IF n <= 2 THEN PathSegments ELSE DeepSegments] : n \in 0..MaxSegments}

RECURSIVE Join(_, _)
\* segs.join(sep)
Join(segs, sep) ==
    IF segs = <<>> THEN ""
    ELSE IF Len(segs) = 1 THEN segs[1]
    ELSE segs[1] \o sep \o Join(Tail(segs), sep)

\* a url of the path segs: with or without a leading slash, a trailing slash
\* and a query string
UrlOf(segs, lead, trail, query) ==
    (IF lead THEN "/" ELSE "") \o Join(segs, "/") \o (IF trail THEN "/" ELSE "")
        \o (IF query THEN "?sort=hot/x" ELSE "")

\* parsePath(url) is called
Classify ==
    /\ inv.pc = "given"
    /\ inv' = [inv EXCEPT !.pc = "classified", !.intent = parsePath(inv.url)]
    /\ UNCHANGED <<ENABLE_TIMING, activeTimers, tmr>>

InitPath ==
    /\ ENABLE_TIMING = FALSE
    /\ activeTimers = EmptyMap
    /\ tmr = <<>>
    /\ \E segs \in SegmentLists, lead \in BOOLEAN, trail \in BOOLEAN, query \in BOOLEAN :
           inv = [pc |-> "given", segs |-> segs, url |-> UrlOf(segs, lead, trail, query),
                  intent |-> NULL]

NextPath == Classify

SpecPath == InitPath /\ [][NextPath]_vars

-----------------------------------------------------------------------------
(* Collaborators that are not part of steemApi.js *)

\* app/utils/Community: whether tag names a community
ifHive(tag) == Len(tag) >= 5 /\ SubSeq(tag, 1, 5) = "hive-"

\* app/redux/stateCleaner: the normalization pass, a total pure transform
stateCleaner(state) == state

-----------------------------------------------------------------------------
(* Backend *)

NetworkFailure == "Network request failed"
ErrorMessages == {NetworkFailure, "Internal Error"}

\* the errors api.call can hand to the callback of a call of `method`
Failures(method) ==
    {[name |-> "Error", message |-> msg, method |-> method] : msg \in ErrorMessages}

Rejected(method) == {[ok |-> FALSE, val |-> err] : err \in Failures(method)}
Resolved(pool) == {[ok |-> TRUE, val |-> data] : data \in pool}

\* length of the longest list of posts the backend returns
MaxPosts == 2

PostPool ==
    {[author |-> "al", permlink |-> "p", body |-> "v1"],
     [author |-> "al", permlink |-> "p", body |-> "v2"],
     [author |-> "bo", permlink |-> "q", body |-> "v1"]}

PostLists == UNION {[1..n -> PostPool] : n \in 0..MaxPosts}

Discussions ==
    {("al/p" :> [author |-> "al", permlink |-> "p", body |-> "v1"])
       @@ ("bo/r" :> [author |-> "bo", permlink |-> "r", body |-> "re"])}

Communities == {[title |-> "Community"]}

\* get_profile: null, an object without a name, an object with a name
Profiles ==
    {[isNull |-> TRUE, name |-> UNDEFINED],
     [isNull |-> FALSE, name |-> UNDEFINED],
     [isNull |-> FALSE, name |-> "al"]}

TopicLists == {<<"news", "art">>}

TopicsLimit == 12

-----------------------------------------------------------------------------
(* getStateAsync.  A machine m is one invocation (m.rec) together with the   *)
(* registry (m.timers) and the clock and random values that the timer starts *)
(* (m.es) and the timer stops (m.ee) of the running segment read.  Each      *)
(* operator runs the code from one point up to the next await or to the end. *)

\* the order of the statements of getStateAsync
StepOrderTopicsFirst == <<"content", "community", "topics", "profile", "normalization">>

StepOrder == <<"content", "community", "profile", "topics", "normalization">>

Pos(step) == CHOOSE i \in 1..Len(StepOrder) : StepOrder[i] = step

TimeStart(m, label) ==
    [m EXCEPT !.timers = safeConsoleTime(ENABLE_TIMING, m.timers, m.rec.self, label,
                                         m.rec.requestId, m.es).timers]

TimeEnd(m, label) ==
    [m EXCEPT !.timers = safeConsoleTimeEnd(ENABLE_TIMING, m.timers, label,
                                            m.rec.requestId, m.ee).timers]

\* history: the steps begun, ended and failed, in order
Log(m, step, at) == [m EXCEPT !.rec.trace = Append(@, [step |-> step, at |-> at])]

\* callBridge(method, params) up to the callback of api.call
Call(m, step, method, params) ==
    [Log(m, step, "begin") EXCEPT
        !.rec.pc = step,
        !.rec.calls = Append(@, [method |-> method, params |-> params, reply |-> NULL])]

\* history: the reply to the pending call
Reply(m, resp) ==
    LET n == Len(m.rec.calls)
        last == m.rec.calls[n]
        settled == [method |-> last.method, params |-> last.params, reply |-> resp]
    IN  [m EXCEPT !.rec.calls = Append(SubSeq(m.rec.calls, 1, n - 1), settled)]

callBridgeRejectWithoutReset(m, err) == m

\* callBridge from the callback `function(err, data)` with an err to reject(err)
callBridgeReject(m, err) ==
    IF err.message = NetworkFailure
    THEN [m EXCEPT !.rec.resets = @ + 1]
    ELSE m

ThrownWrapped(error, requestId, url) ==
    [name |-> "HydrationError", message |-> error.message, method |-> error.method,
     cause |-> error, requestId |-> requestId, url |-> url]

\* `throw error` of the catch block
Thrown(error, requestId, url) == error

\* the catch block of getStateAsync
Fail(m, error) ==
    LET logged == [m EXCEPT !.rec.errlog =
                       Append(@, [msg |-> "~~ getStateAsync error ~~", error |-> error,
                                  requestId |-> m.rec.requestId, url |-> m.rec.url])]
        reset == IF error.message = NetworkFailure
                 THEN [logged EXCEPT !.rec.resets = @ + 1]
                 ELSE logged
    IN  [reset EXCEPT !.rec.pc = "done",
                      !.rec.out = [kind |-> "throw",
                                   value |-> Thrown(error, m.rec.requestId, m.rec.url)]]

\* the account whose profile is loaded, or null
Account(rec) ==
    IF Truthy(rec.tag) /\ CharAt(rec.tag, 0) = "@"
    THEN Slice1(rec.tag)
    ELSE IF rec.page = "thread" THEN Slice1(rec.key[1]) ELSE NULL

RECURSIVE Advance(_, _)

\* stateCleaner and the return
Clean(m, i) ==
    LET a == Log(TimeStart(m, "timing_stateCleaner"), "normalization", "begin")
        cleansed == stateCleaner(a.rec.state)
        b == Log(TimeEnd(a, "timing_stateCleaner"), "normalization", "end")
    IN  [b EXCEPT !.rec.pc = "done", !.rec.out = [kind |-> "return", value |-> cleansed]]

EnterTopicsInEveryMode(m, i) ==
    Call(TimeStart(m, "timing_get_trending_topics"), "topics",
         "get_trending_topics", [limit |-> TopicsLimit])

\* `if (ssr)` up to the await of get_trending_topics
EnterTopics(m, i) ==
    IF m.rec.ssr
    THEN Call(TimeStart(m, "timing_get_trending_topics"), "topics",
              "get_trending_topics", [limit |-> TopicsLimit])
    ELSE Advance(m, i + 1)

ResumeTopicsSwallows(m, resp) ==
    IF resp.ok
    THEN Advance(Log(TimeEnd([m EXCEPT !.rec.state = ("topics" :> resp.val) @@ @],
                             "timing_get_trending_topics"), "topics", "end"),
                 Pos("topics") + 1)
    ELSE Advance(Log(callBridgeReject(m, resp.val), "topics", "failed"),
                 Pos("topics") + 1)

\* from the settlement of get_trending_topics
ResumeTopics(m, resp) ==
    IF resp.ok
    THEN Advance(Log(TimeEnd([m EXCEPT !.rec.state = ("topics" :> resp.val) @@ @],
                             "timing_get_trending_topics"), "topics", "end"),
                 Pos("topics") + 1)
    ELSE Fail(Log(callBridgeReject(m, resp.val), "topics", "failed"), resp.val)

\* `if (ssr && account)` up to the await of get_profile
EnterProfile(m, i) ==
    LET account == Account(m.rec)
    IN  IF m.rec.ssr /\ Truthy(account)
        THEN Call(TimeStart(m, "timing_get_profile_" \o account), "profile",
                  "get_profile", [account |-> account])
        ELSE Advance(m, i + 1)

\* from the settlement of get_profile
ResumeProfile(m, resp) ==
    LET account == Account(m.rec)
        profile == resp.val
    IN  IF resp.ok
        THEN LET a == TimeEnd(m, "timing_get_profile_" \o account)
                 b == IF ~profile.isNull /\ Truthy(profile.name)
                      THEN [a EXCEPT !.rec.state.profiles = MapSet(@, account, profile)]
                      ELSE a
             IN  Advance(Log(b, "profile", "end"), Pos("profile") + 1)
        ELSE Fail(Log(callBridgeReject(m, resp.val), "profile", "failed"), resp.val)

\* `if (tag && ifHive(tag))` up to the await of get_community
EnterCommunity(m, i) ==
    IF Truthy(m.rec.tag) /\ ifHive(m.rec.tag)
    THEN Call(TimeStart(m, "timing_get_community_" \o m.rec.tag), "community",
              "get_community", [name |-> m.rec.tag, observer |-> m.rec.observer])
    ELSE Advance(m, i + 1)

ResumeCommunityRethrows(m, resp) ==
    IF resp.ok
    THEN LET a == [m EXCEPT !.rec.state.community = MapSet(@, m.rec.tag, resp.val)]
             b == TimeEnd(a, "timing_get_community_" \o m.rec.tag)
         IN  Advance(Log(b, "community", "end"), Pos("community") + 1)
    ELSE Fail(Log(callBridgeReject(m, resp.val), "community", "failed"), resp.val)

\* from the settlement of get_community; `catch (e) {}` swallows a failure
ResumeCommunity(m, resp) ==
    IF resp.ok
    THEN LET a == [m EXCEPT !.rec.state.community = MapSet(@, m.rec.tag, resp.val)]
             b == TimeEnd(a, "timing_get_community_" \o m.rec.tag)
         IN  Advance(Log(b, "community", "end"), Pos("community") + 1)
    ELSE Advance(Log(callBridgeReject(m, resp.val), "community", "failed"),
                 Pos("community") + 1)

\* the account of loadPosts, or null
PostsAccount(rec) ==
    IF Truthy(rec.tag) /\ CharAt(rec.tag, 0) = "@" THEN Slice1(rec.tag) ELSE NULL

\* the label of the timer around the backend call of loadPosts
FetchPostsLabel(rec) ==
    IF Truthy(PostsAccount(rec))
    THEN "timing_get_account_posts_" \o PostsAccount(rec) \o "_" \o Interp(rec.sort)
    ELSE "timing_get_ranked_posts_" \o Interp(rec.sort) \o "_" \o Interp(rec.tag)

LoadPostsLabel(rec) == "timing_loadPosts_" \o Interp(rec.sort) \o "_" \o Interp(rec.tag)

LoadThreadLabel(rec) == "timing_loadThread_" \o rec.key[1] \o "_" \o rec.key[2]

GetDiscussionLabel(rec) ==
    "timing_get_discussion_" \o Slice1(rec.key[1]) \o "_" \o rec.key[2]

RECURSIVE AggregateFromKeepsFirst(_, _, _, _)
AggregateFromKeepsFirst(posts, idx, content, keys) ==
    IF idx > Len(posts)
    THEN [content |-> content, keys |-> keys]
    ELSE LET post == posts[idx]
             key == post.author \o "/" \o post.permlink
         IN  AggregateFromKeepsFirst(
                 posts, idx + 1,
                 IF key \in DOMAIN content THEN content ELSE MapSet(content, key, post),
                 IF Includes(keys, key) THEN keys ELSE Append(keys, key))

RECURSIVE AggregateFrom(_, _, _, _)
\* the loop `for (var idx in posts)` of loadPosts from index idx
AggregateFrom(posts, idx, content, keys) ==
    IF idx > Len(posts)
    THEN [content |-> content, keys |-> keys]
    ELSE LET post == posts[idx]
             key == post.author \o "/" \o post.permlink
         IN  AggregateFrom(posts, idx + 1, MapSet(content, key, post),
                           IF Includes(keys, key) THEN keys ELSE Append(keys, key))

loadPostsResultKeepsRepeats(posts, sort, tag) ==
    LET agg == AggregateFrom(posts, 1, EmptyMap, <<>>)
        keys == [i \in 1..Len(posts) |-> posts[i].author \o "/" \o posts[i].permlink]
    IN  [content |-> agg.content, discussion_idx |-> (tag :> (sort :> keys))]

\* what loadPosts returns for the posts the backend returned
loadPostsResult(posts, sort, tag) ==
    LET agg == AggregateFrom(posts, 1, EmptyMap, <<>>)
    IN  [content |-> agg.content, discussion_idx |-> (tag :> (sort :> agg.keys))]

\* loadPosts up to its await
loadPostsCall(m) ==
    LET account == PostsAccount(m.rec)
        a == TimeStart(m, FetchPostsLabel(m.rec))
    IN  IF Truthy(account)
        THEN Call(a, "content", "get_account_posts",
                  [sort |-> m.rec.sort, account |-> account, observer |-> m.rec.observer])
        ELSE Call(a, "content", "get_ranked_posts",
                  [sort |-> m.rec.sort, tag |-> m.rec.tag, observer |-> m.rec.observer])

loadThreadCallWholeAccount(m) ==
    Call(TimeStart(m, GetDiscussionLabel(m.rec)), "content", "get_discussion",
         [author |-> m.rec.key[1], permlink |-> m.rec.key[2]])

\* loadThread up to its await
loadThreadCall(m) ==
    Call(TimeStart(m, GetDiscussionLabel(m.rec)), "content", "get_discussion",
         [author |-> Slice1(m.rec.key[1]), permlink |-> m.rec.key[2]])

EnterContentLoadsAlways(m, i) ==
    IF m.rec.page = "thread"
    THEN loadThreadCall(TimeStart(m, LoadThreadLabel(m.rec)))
    ELSE loadPostsCall(TimeStart(m, LoadPostsLabel(m.rec)))

\* `if (page == 'posts' || page == 'account') ... else if (page == 'thread')`
\* up to the await inside loadPosts or loadThread
EnterContent(m, i) ==
    IF m.rec.page \in {"posts", "account"}
    THEN loadPostsCall(TimeStart(m, LoadPostsLabel(m.rec)))
    ELSE IF m.rec.page = "thread"
    THEN loadThreadCall(TimeStart(m, LoadThreadLabel(m.rec)))
    ELSE Advance(m, i + 1)

\* from the settlement of the backend call of loadPosts or loadThread
ResumeContent(m, resp) ==
    IF ~resp.ok
    THEN Fail(Log(callBridgeReject(m, resp.val), "content", "failed"), resp.val)
    ELSE IF m.rec.page = "thread"
    THEN LET a == TimeEnd(m, GetDiscussionLabel(m.rec))
             b == TimeEnd(a, LoadThreadLabel(m.rec))
             c == [b EXCEPT !.rec.state.content = resp.val]
         IN  Advance(Log(c, "content", "end"), Pos("content") + 1)
    ELSE LET a == TimeEnd(m, FetchPostsLabel(m.rec))
             posts == loadPostsResult(resp.val, m.rec.sort, m.rec.tag)
             b == TimeEnd(a, LoadPostsLabel(m.rec))
             c == [b EXCEPT !.rec.state.content = posts.content,
                            !.rec.state.discussion_idx = posts.discussion_idx]
         IN  Advance(Log(c, "content", "end"), Pos("content") + 1)

\* the i-th statement of getStateAsync after parsePath
Advance(m, i) ==
    LET step == StepOrder[i]
    IN  CASE step = "content" -> EnterContent(m, i)
          [] step = "community" -> EnterCommunity(m, i)
          [] step = "profile" -> EnterProfile(m, i)
          [] step = "topics" -> EnterTopics(m, i)
          [] step = "normalization" -> Clean(m, i)

-----------------------------------------------------------------------------
(* Invocations of getStateAsync *)

IdleInvocation(r) ==
    [self |-> r, pc |-> "idle", url |-> NULL, observer |-> NULL, ssr |-> FALSE,
     requestId |-> NULL, page |-> NULL, tag |-> NULL, sort |-> NULL, key |-> NoKey,
     state |-> NULL, out |-> [kind |-> "pending", value |-> NULL], resets |-> 0,
     trace |-> <<>>, calls |-> <<>>, errlog |-> <<>>]

\* the clock and random values the timer starts and the timer stops of one
\* segment can read; an invocation with a request id reads neither
SegmentDraws(requestId) ==
    IF Truthy(requestId)
    THEN {<<[now |-> 0, rnd |-> 0], [now |-> 0, rnd |-> 0]>>}
    ELSE {<<[now |-> 0, rnd |-> 0], [now |-> 0, rnd |-> 0]>>,
          <<[now |-> 0, rnd |-> 0], [now |-> 0, rnd |-> 1]>>}

Machine(rec, draw) == [rec |-> rec, timers |-> activeTimers, es |-> draw[1], ee |-> draw[2]]

Commit(r, m) ==
    /\ inv' = [inv EXCEPT ![r] = m.rec]
    /\ activeTimers' = m.timers
    /\ UNCHANGED <<ENABLE_TIMING, tmr>>

\* getStateAsync(url, observer, ssr, requestId) up to its first await
Invoke(r, url, observer, ssr, requestId) ==
    /\ inv[r].pc = "idle"
    /\ \E draw \in SegmentDraws(requestId) :
        LET intent == parsePath(url)
            rec == [IdleInvocation(r) EXCEPT
                       !.url = url,
                       !.observer = IF observer = UNDEFINED THEN NULL ELSE observer,
                       !.ssr = ssr, !.requestId = requestId,
                       !.page = intent.page, !.tag = intent.tag,
                       !.sort = intent.sort, !.key = intent.key,
                       !.state = [accounts |-> EmptyMap, community |-> EmptyMap,
                                  content |-> EmptyMap, discussion_idx |-> EmptyMap,
                                  profiles |-> EmptyMap],
                       !.trace = <<[step |-> "classification", at |-> "begin"],
                                   [step |-> "classification", at |-> "end"]>>]
        IN  Commit(r, Advance(Machine(rec, draw), 1))

PendingMethod(r) == inv[r].calls[Len(inv[r].calls)].method

\* the replies the backend can give to a call of `method`
Replies(method, postLists) ==
    Rejected(method)
        \cup (CASE method = "get_discussion" -> Resolved(Discussions)
                [] method = "get_community" -> Resolved(Communities)
                [] method = "get_profile" -> Resolved(Profiles)
                [] method = "get_trending_topics" -> Resolved(TopicLists)
                [] OTHER -> Resolved(postLists))

\* the backend methods of loadPosts and loadThread
ContentMethods == {"get_ranked_posts", "get_account_posts", "get_discussion"}

\* the backend call of loadPosts or loadThread settles
ContentSettles(r, method, resp) ==
    /\ inv[r].pc = "content"
    /\ PendingMethod(r) = method
    /\ \E draw \in SegmentDraws(inv[r].requestId) :
        Commit(r, ResumeContent(Reply(Machine(inv[r], draw), resp), resp))

\* get_community settles
CommunitySettles(r, resp) ==
    /\ inv[r].pc = "community"
    /\ \E draw \in SegmentDraws(inv[r].requestId) :
        Commit(r, ResumeCommunity(Reply(Machine(inv[r], draw), resp), resp))

\* get_profile settles
ProfileSettles(r, resp) ==
    /\ inv[r].pc = "profile"
    /\ \E draw \in SegmentDraws(inv[r].requestId) :
        Commit(r, ResumeProfile(Reply(Machine(inv[r], draw), resp), resp))

\* get_trending_topics settles
TopicsSettles(r, resp) ==
    /\ inv[r].pc = "topics"
    /\ \E draw \in SegmentDraws(inv[r].requestId) :
        Commit(r, ResumeTopics(Reply(Machine(inv[r], draw), resp), resp))

Urls ==
    {"", "hot/t", "created/hive-1", "@al", "@al/feed", "@al/settings",
     "hive-1/@al/p", "@al/@bo/p", "a/b/c/d"}
Observers == {UNDEFINED, "bob"}
HydrateIds == {"u", NULL}

Init ==
    /\ ENABLE_TIMING \in BOOLEAN
    /\ activeTimers = EmptyMap
    /\ tmr = <<>>
    /\ inv = [r \in {1} |-> IdleInvocation(r)]

Next ==
    \/ \E url \in Urls, observer \in Observers, ssr \in BOOLEAN, id \in HydrateIds :
           Invoke(1, url, observer, ssr, id)
    \/ \E method \in ContentMethods : \E resp \in Replies(method, PostLists) :
           ContentSettles(1, method, resp)
    \/ \E resp \in Replies("get_community", {}) : CommunitySettles(1, resp)
    \/ \E resp \in Replies("get_profile", {}) : ProfileSettles(1, resp)
    \/ \E resp \in Replies("get_trending_topics", {}) : TopicsSettles(1, resp)

Spec == Init /\ [][Next]_vars

-----------------------------------------------------------------------------
(* Two invocations of getStateAsync in flight at the same time *)

PairUrls == {"hive-1/@al/p", "hive-1/@al/p_x"}
PairIds == {"u", "x_u"}
Pair == {1, 2}

InitPair ==
    /\ ENABLE_TIMING \in BOOLEAN
    /\ activeTimers = EmptyMap
    /\ tmr = <<>>
    /\ inv = [r \in Pair |-> IdleInvocation(r)]

NextPair ==
    \E r \in Pair :
        \/ \E url \in PairUrls, id \in PairIds : Invoke(r, url, UNDEFINED, TRUE, id)
        \/ \E resp \in Replies("get_discussion", {}) :
               ContentSettles(r, "get_discussion", resp)
        \/ \E resp \in Replies("get_community", {}) : CommunitySettles(r, resp)
        \/ \E resp \in Replies("get_profile", {}) : ProfileSettles(r, resp)
        \/ \E resp \in Replies("get_trending_topics", {}) : TopicsSettles(r, resp)

SpecPair == InitPair /\ [][NextPair]_vars

-----------------------------------------------------------------------------
(* Properties *)

\* the step `step` of invocation record rec has begun, ended or failed
Happened(rec, step, at) ==
    \E i \in 1..Len(rec.trace) : rec.trace[i] = [step |-> step, at |-> at]

\* the labels of the registry that `who` registered
OwnedBy(who) == {l \in DOMAIN activeTimers : activeTimers[l] = who}

LastCall(rec) == rec.calls[Len(rec.calls)]

\* the callers that have called the registry all used start/stop with one base
\* label and pairwise distinct non-empty request ids
SameBaseDistinctIds ==
    LET acted == {i \in Timers : tmr[i].pc # "idle"}
    IN  /\ \A i \in acted : tmr[i].pc \in {"started", "stopped"} /\ Truthy(tmr[i].id)
        /\ \A i, j \in acted :
               tmr[i].base = tmr[j].base /\ (i # j => tmr[i].id # tmr[j].id)

\* C1: with timing enabled, timers with one base label and pairwise distinct
\* non-empty request ids never lose their span to the stop of another timer (a
\* started timer's span stays registered under it until its own stop, and a stop
\* removes only the stopping caller's span), and the registry is empty once all
\* of them have stopped.
C1_StopRemovesOnlyOwnSpan ==
    /\ [](ENABLE_TIMING /\ SameBaseDistinctIds =>
            /\ \A i \in Timers :
                   tmr[i].pc = "started" =>
                       /\ tmr[i].token \in DOMAIN activeTimers
                       /\ activeTimers[tmr[i].token] = i
            /\ (\A i \in Timers : tmr[i].pc \in {"idle", "stopped"}) =>
                   getActiveTimerCount = 0)
    /\ [][ENABLE_TIMING /\ SameBaseDistinctIds' =>
            \A l \in (DOMAIN activeTimers) \ (DOMAIN activeTimers') :
                \E i \in Timers :
                    /\ tmr[i].pc = "started" /\ tmr'[i].pc = "stopped"
                    /\ activeTimers[l] = i
                    /\ l = tmr[i].token]_vars

C1_Witness ==
    /\ ENABLE_TIMING
    /\ SameBaseDistinctIds
    /\ \A i \in Timers : tmr[i].pc = "stopped" /\ ~tmr[i].warned
    /\ getActiveTimerCount = 0

\* both invocations are under way with distinct non-empty request ids
DistinctRequestIds ==
    /\ \A r \in DOMAIN inv : inv[r].pc # "idle" /\ Truthy(inv[r].requestId)
    /\ \A r1, r2 \in DOMAIN inv : r1 # r2 => inv[r1].requestId # inv[r2].requestId

\* C2: with timing enabled and distinct non-empty request ids, a label that
\* holds a live span of one invocation is never taken over by the other
\* invocation, and a span is removed only by a step of the invocation that
\* registered it.
C2_NoSharedLabelNoForeignStop ==
    [][ENABLE_TIMING /\ DistinctRequestIds' =>
          \A l \in DOMAIN activeTimers :
              /\ l \in DOMAIN activeTimers' => activeTimers'[l] = activeTimers[l]
              /\ l \notin DOMAIN activeTimers' =>
                     inv'[activeTimers[l]] # inv[activeTimers[l]]]_vars

\* C3: with timing enabled, an invocation that has terminated (returned or
\* failed) has no span of its own left in the registry.  Stated for the
\* invocations that carry a request id, whose stops derive the label of their
\* start; without one even a returned invocation leaves its spans behind.
C3_NoSpanLeftAtTermination ==
    \A r \in DOMAIN inv :
        ENABLE_TIMING /\ Truthy(inv[r].requestId) /\ inv[r].pc = "done" =>
            OwnedBy(r) = {}

\* C4: when the primary content fetch fails with the network failure, the
\* invocation fails and the endpoint-reset hook has been invoked exactly once.
C4_NetworkFailureResetsOnce ==
    \A r \in DOMAIN inv :
        (/\ inv[r].pc = "done"
         /\ Happened(inv[r], "content", "failed")
         /\ LastCall(inv[r]).reply.val.message = NetworkFailure)
        => inv[r].out.kind = "throw" /\ inv[r].resets = 1

\* C5: in full render mode a failed profile fetch is ignored: the topics step
\* follows, the invocation does not fail with the profile failure, and a
\* returned snapshot has no profile for the account.
C5_ProfileFailureIgnored ==
    \A r \in DOMAIN inv :
        inv[r].ssr /\ Happened(inv[r], "profile", "failed") =>
            /\ Happened(inv[r], "topics", "begin")
            /\ inv[r].out.kind = "throw" => inv[r].out.value.method # "get_profile"
            /\ inv[r].out.kind = "return" =>
                   Account(inv[r]) \notin DOMAIN inv[r].out.value.profiles

\* C6: a failed community fetch is swallowed: the community map gets no entry
\* for the tag, the invocation never fails with that failure, the later steps
\* (profile, topics, normalization) still run, and the step leaves content and
\* discussion_idx as they were.
C6_CommunityFailureSwallowed ==
    /\ [](\A r \in DOMAIN inv :
            Happened(inv[r], "community", "failed") =>
                /\ inv[r].tag \notin DOMAIN inv[r].state.community
                /\ inv[r].out.kind = "throw" =>
                       inv[r].out.value.method # "get_community"
                /\ inv[r].pc = "done" /\ inv[r].ssr /\ Truthy(Account(inv[r])) =>
                       Happened(inv[r], "profile", "begin")
                /\ (/\ inv[r].pc = "done" /\ inv[r].ssr
                    /\ ~Happened(inv[r], "profile", "failed")) =>
                       Happened(inv[r], "topics", "begin")
                /\ (/\ inv[r].pc = "done"
                    /\ ~Happened(inv[r], "profile", "failed")
                    /\ ~Happened(inv[r], "topics", "failed")) =>
                       /\ Happened(inv[r], "normalization", "end")
                       /\ inv[r].out.kind = "return")
    /\ [][\A r \in DOMAIN inv :
            inv[r].pc = "community" /\ Happened(inv'[r], "community", "failed") =>
                /\ inv'[r].state.content = inv[r].state.content
                /\ inv'[r].state.discussion_idx = inv[r].state.discussion_idx]_vars

C6_Witness ==
    \E r \in DOMAIN inv :
        /\ Happened(inv[r], "community", "failed")
        /\ inv[r].ssr
        /\ Happened(inv[r], "profile", "end")
        /\ inv[r].out.kind = "return"
        /\ DOMAIN inv[r].state.content # {}

TopicCalls(rec) == {i \in 1..Len(rec.calls) : rec.calls[i].method = "get_trending_topics"}

\* C7: in full render mode a failed topics fetch makes the invocation fail with
\* that failure and the normalization pass is not run; a returned invocation has
\* a topics entry, the reply to its only topics request, whose limit is 12.
C7_TopicsRequired ==
    \A r \in DOMAIN inv :
        inv[r].ssr =>
            /\ Happened(inv[r], "topics", "failed") =>
                   /\ inv[r].out.kind = "throw"
                   /\ inv[r].out.value.method = "get_trending_topics"
                   /\ ~Happened(inv[r], "normalization", "begin")
            /\ inv[r].out.kind = "return" =>
                   /\ "topics" \in DOMAIN inv[r].state
                   /\ Cardinality(TopicCalls(inv[r])) = 1
                   /\ \A i \in TopicCalls(inv[r]) :
                          /\ inv[r].calls[i].params = [limit |-> 12]
                          /\ inv[r].calls[i].reply.ok
                          /\ inv[r].state.topics = inv[r].calls[i].reply.val

C7_Witness ==
    \E r \in DOMAIN inv :
        /\ inv[r].ssr
        /\ Happened(inv[r], "topics", "failed")
        /\ inv[r].out.kind = "throw"

StatedOrder ==
    <<"classification", "content", "community", "profile", "topics", "normalization">>

Rank(step) == CHOOSE i \in 1..Len(StatedOrder) : StatedOrder[i] = step

\* C9: the steps of one invocation begin in the order classification, content,
\* community, profile, topics, normalization; a step that has begun ends (or
\* fails) before another begins; a returned invocation ended with normalization.
C9_StepsInOrder ==
    \A r \in DOMAIN inv :
        LET t == inv[r].trace
        IN  /\ inv[r].pc # "idle" => t[1] = [step |-> "classification", at |-> "begin"]
            /\ \A i, j \in 1..Len(t) :
                   i < j /\ t[i].at = "begin" /\ t[j].at = "begin" =>
                       Rank(t[i].step) < Rank(t[j].step)
            /\ \A i \in 1..Len(t) :
                   IF t[i].at = "begin"
                   THEN i < Len(t) =>
                            t[i + 1].step = t[i].step /\ t[i + 1].at \in {"end", "failed"}
                   ELSE i > 1 /\ t[i - 1] = [step |-> t[i].step, at |-> "begin"]
            /\ inv[r].out.kind = "return" =>
                   t[Len(t)] = [step |-> "normalization", at |-> "end"]

C9_Witness ==
    \E r \in DOMAIN inv :
        /\ inv[r].out.kind = "return"
        /\ \A k \in 1..Len(StatedOrder) : Happened(inv[r], StatedOrder[k], "end")

\* C10: with timing disabled the registry is empty in every state, a start
\* returned the null sentinel, and a settled safeTimedExecution handed back what
\* the operation produced.
C10_DisabledRegistryStaysEmpty ==
    ~ENABLE_TIMING =>
        /\ getActiveTimerCount = 0
        /\ \A i \in Timers :
               /\ tmr[i].pc \in {"started", "wrapping"} => tmr[i].token = NULL
               /\ tmr[i].pc = "wrapped" => tmr[i].out \in Operations

C10_Witness ==
    /\ ~ENABLE_TIMING
    /\ \E i, j \in Timers :
           /\ tmr[i].pc = "stopped" /\ ~tmr[i].warned
           /\ tmr[j].pc = "wrapped" /\ tmr[j].out.ok

\* caller i passes from position `from` to position `to` in this step
Moves(i, from, to) == tmr[i].pc = from /\ tmr'[i].pc = to

\* C11: with timing enabled, safeTimedExecution registers a span under the
\* label it got from its start, and when it settles (with the result or with
\* the failure of the operation) that label is no longer in the registry and
\* the caller has what the operation produced, with or without a request id.
C11_WrapStopsItsSpan ==
    [][ENABLE_TIMING =>
          \A i \in Timers :
              /\ Moves(i, "idle", "wrapping") =>
                     /\ tmr'[i].token \in DOMAIN activeTimers'
                     /\ activeTimers'[tmr'[i].token] = i
              /\ Moves(i, "wrapping", "wrapped") =>
                     /\ tmr[i].token \notin DOMAIN activeTimers'
                     /\ tmr'[i].out \in Operations]_vars

C11_Witness ==
    /\ ENABLE_TIMING
    /\ \E i, j \in Timers :
           /\ tmr[i].pc = "wrapped" /\ tmr[i].out.ok /\ ~tmr[i].warned
           /\ tmr[j].pc = "wrapped" /\ ~tmr[j].out.ok /\ ~tmr[j].warned
    /\ getActiveTimerCount = 0

\* no label that a stop of (base, id) can address is a key of the registry
Missing(base, id) ==
    /\ base \notin DOMAIN activeTimers
    /\ \A e \in Draw(id) : generateUniqueLabel(base, id, e) \notin DOMAIN activeTimers

\* C12: a stop that finds no timer (none was started, or it was stopped
\* already) completes, warns, and leaves the registry as it was: a stop that
\* warned changed nothing, and a stop warns and changes nothing whenever the
\* registry is empty or holds none of the labels the stop can address.
C12_MissingTimerOnlyWarns ==
    [][\A i \in Timers :
          (Moves(i, "idle", "strayed") \/ Moves(i, "started", "stopped")) =>
              /\ tmr'[i].warned => ENABLE_TIMING /\ activeTimers' = activeTimers
              /\ ENABLE_TIMING /\ activeTimers = EmptyMap =>
                     tmr'[i].warned /\ activeTimers' = activeTimers
              /\ (/\ ENABLE_TIMING
                  /\ tmr[i].pc = "started"
                  /\ Missing(tmr[i].base, tmr[i].id)) =>
                     tmr'[i].warned /\ activeTimers' = activeTimers]_vars

C12_Witness ==
    /\ ENABLE_TIMING
    /\ \E i, j \in Timers :
           /\ tmr[i].pc = "strayed" /\ tmr[i].warned
           /\ tmr[j].pc = "started"
           /\ tmr[j].token \in DOMAIN activeTimers
           /\ activeTimers[tmr[j].token] = j

\* C13: with timing enabled, a stop with the arguments of the caller's start
\* removes the span that start registered when no request id was supplied to
\* either call.
C13_StopWithoutIdRemovesSpan ==
    [][ENABLE_TIMING =>
          \A i \in Timers :
              Moves(i, "started", "stopped") /\ ~Truthy(tmr[i].id) =>
                  tmr[i].token \notin DOMAIN activeTimers']_vars

\* the calls of invocation record rec to one of the backend methods
CallsOf(rec, methods) == {i \in 1..Len(rec.calls) : rec.calls[i].method \in methods}

\* C14 as claimed: an invocation for a url of page none never fails, and it
\* returns a snapshot with empty content and discussion_idx.  Stated for the
\* invocations whose profile fetch, if any, did not fail.
C14_NonePageNeverFails ==
    \A r \in DOMAIN inv :
        (/\ inv[r].pc = "done"
         /\ inv[r].page = NULL
         /\ ~Happened(inv[r], "profile", "failed")) =>
            /\ inv[r].out.kind = "return"
            /\ inv[r].out.value.content = EmptyMap
            /\ inv[r].out.value.discussion_idx = EmptyMap

\* C14 as amended: an invocation for a url of page none issues no content
\* fetch, keeps content and discussion_idx empty and returns them empty; in API
\* mode it returns at once; in full render mode it fails only with the failure
\* of its profile fetch or of its topics fetch.
C14_NonePageLoadsNoContent ==
    \A r \in DOMAIN inv :
        inv[r].pc # "idle" /\ inv[r].page = NULL =>
            /\ CallsOf(inv[r], ContentMethods) = {}
            /\ inv[r].state.content = EmptyMap
            /\ inv[r].state.discussion_idx = EmptyMap
            /\ inv[r].out.kind = "return" =>
                   /\ inv[r].out.value.content = EmptyMap
                   /\ inv[r].out.value.discussion_idx = EmptyMap
            /\ ~inv[r].ssr => inv[r].pc = "done" /\ inv[r].out.kind = "return"
            /\ inv[r].out.kind = "throw" =>
                   /\ inv[r].ssr
                   /\ LastCall(inv[r]).method \in {"get_profile", "get_trending_topics"}
                   /\ inv[r].out.value = LastCall(inv[r]).reply.val

C14_Witness ==
    \E r \in DOMAIN inv :
        /\ inv[r].url = "@al/settings"
        /\ inv[r].page = NULL
        /\ inv[r].ssr
        /\ Happened(inv[r], "profile", "end")
        /\ inv[r].out.kind = "return"

KeyOf(post) == post.author \o "/" \o post.permlink

\* the index of the first post of posts with content key k
FirstSeen(posts, k) ==
    CHOOSE i \in 1..Len(posts) :
        KeyOf(posts[i]) = k /\ \A j \in 1..(i - 1) : KeyOf(posts[j]) # k

\* C17: once the posts of a posts or account page are loaded,
\* discussion_idx[tag][sort] holds the content keys of the returned posts, each
\* once, in the order of their first occurrence, and aggregating the same
\* reply again gives the same list.
C17_IndexHoldsEachKeyOnce ==
    \A r \in DOMAIN inv :
        inv[r].page \in {"posts", "account"} /\ Happened(inv[r], "content", "end") =>
            LET posts == inv[r].calls[1].reply.val
                index == inv[r].state.discussion_idx
                keys == index[inv[r].tag][inv[r].sort]
            IN  /\ DOMAIN index = {inv[r].tag}
                /\ DOMAIN index[inv[r].tag] = {inv[r].sort}
                /\ \A i, j \in 1..Len(keys) : i # j => keys[i] # keys[j]
                /\ {keys[i] : i \in 1..Len(keys)} = {KeyOf(posts[i]) : i \in 1..Len(posts)}
                /\ \A i, j \in 1..Len(keys) :
                       i < j => FirstSeen(posts, keys[i]) < FirstSeen(posts, keys[j])
                /\ loadPostsResult(posts, inv[r].sort, inv[r].tag).discussion_idx = index

C17_Witness ==
    \E r \in DOMAIN inv :
        /\ inv[r].page = "posts"
        /\ Happened(inv[r], "content", "end")
        /\ Len(inv[r].calls[1].reply.val) = 2
        /\ Len(inv[r].state.discussion_idx[inv[r].tag][inv[r].sort]) = 1

\* s without its first character
WithoutFirst(s) == SubSeq(s, 2, Len(s))

\* the acting account of an account page and of a thread page
ActingAccount(rec) ==
    IF rec.page = "account" THEN WithoutFirst(rec.tag) ELSE WithoutFirst(rec.key[1])

\* C18: in full render mode an account page or thread page that is past its
\* profile step fetched the profile of the acting account (the account of tag
\* for an account page, the thread author for a thread page) and of no other,
\* and attached it exactly when the reply is present and has a name.
C18_ProfileOfActingAccount ==
    \A r \in DOMAIN inv :
        (/\ inv[r].ssr
         /\ inv[r].page \in {"account", "thread"}
         /\ Happened(inv[r], "profile", "begin")) =>
            LET fetched == CallsOf(inv[r], {"get_profile"})
                profiles == inv[r].state.profiles
            IN  /\ \A i \in fetched :
                       inv[r].calls[i].params = [account |-> ActingAccount(inv[r])]
                /\ DOMAIN profiles \subseteq {ActingAccount(inv[r])}
                /\ \A i \in fetched :
                       Happened(inv[r], "profile", "end") =>
                           LET profile == inv[r].calls[i].reply.val
                           IN  (DOMAIN profiles # {})
                                   <=> (~profile.isNull /\ Truthy(profile.name))

\* C19: an invocation for a thread page issues one get_discussion call, as its
\* first call, with the first key segment without its '@' as author and the
\* second as permlink; once it is answered content is the reply; discussion_idx
\* is empty throughout.
C19_ThreadLoadsOneDiscussion ==
    \A r \in DOMAIN inv :
        inv[r].pc # "idle" /\ inv[r].page = "thread" =>
            /\ CallsOf(inv[r], ContentMethods) = {1}
            /\ inv[r].calls[1].method = "get_discussion"
            /\ inv[r].calls[1].params = [author |-> WithoutFirst(inv[r].key[1]),
                                         permlink |-> inv[r].key[2]]
            /\ inv[r].state.discussion_idx = EmptyMap
            /\ Happened(inv[r], "content", "end") =>
                   inv[r].state.content = inv[r].calls[1].reply.val
            /\ ~Happened(inv[r], "content", "end") => inv[r].state.content = EmptyMap

C19_Witness ==
    \E r \in DOMAIN inv :
        /\ inv[r].page = "thread"
        /\ inv[r].key = <<"@bo", "p">>
        /\ inv[r].out.kind = "return"
        /\ inv[r].out.value.content \in Discussions

\* the keywords the classifier is stated to recognize
RecognizedSorts ==
    {"trending", "promoted", "hot", "created", "payout", "payout_comments", "muted"}

RecognizedTabs == {"blog", "feed", "posts", "comments", "replies", "payout"}

BeginsWithAt(seg) == Len(seg) >= 1 /\ SubSeq(seg, 1, 1) = "@"

Intent(page, sort, tag, key) == [page |-> page, tag |-> tag, sort |-> sort, key |-> key]

\* C15: a path that is one recognized sort keyword s classifies to page posts
\* with sort s, the empty tag and no key; the blank path (the urls "" and "/")
\* classifies to what the path trending classifies to.
C15_SortKeywordIsPostsPage ==
    inv.pc = "classified" =>
        /\ (Len(inv.segs) = 1 /\ inv.segs[1] \in RecognizedSorts) =>
               inv.intent = Intent("posts", inv.segs[1], "", NoKey)
        /\ inv.segs = <<>> => inv.intent = Intent("posts", "trending", "", NoKey)

C15_Witness ==
    /\ inv.pc = "classified"
    /\ inv.url = "/"
    /\ inv.intent.sort = "trending"

\* C16: a path of one segment that begins with '@' is the account page of that
\* segment with sort blog; a path of two segments whose first begins with '@' is
\* the account page with the second segment as sort when that is an account tab,
\* and otherwise page none with the first segment as tag and no sort.
C16_AccountPaths ==
    (inv.pc = "classified" /\ Len(inv.segs) \in {1, 2} /\ BeginsWithAt(inv.segs[1])) =>
        IF Len(inv.segs) = 1
        THEN inv.intent = Intent("account", "blog", inv.segs[1], NoKey)
        ELSE IF inv.segs[2] \in RecognizedTabs
        THEN inv.intent = Intent("account", inv.segs[2], inv.segs[1], NoKey)
        ELSE inv.intent = Intent(NULL, NULL, inv.segs[1], NoKey)

C16_Witness ==
    /\ inv.pc = "classified"
    /\ inv.segs = <<"@al", "settings">>
    /\ inv.intent.page = NULL

\* the path segs matches one of the rules of the classifier
MatchesRule(segs) ==
    \/ Len(segs) = 0
    \/ Len(segs) \in {1, 2} /\ segs[1] \in RecognizedSorts
    \/ Len(segs) \in {1, 2} /\ BeginsWithAt(segs[1])
    \/ Len(segs) = 3 /\ BeginsWithAt(segs[2])

\* C20: a path of two segments whose first is a sort keyword is a posts page
\* with the second segment as tag, also when that begins with '@'; a path of
\* three segments whose second begins with '@' is a thread page with the first
\* segment as tag and the other two as key, whatever the first segment is; a
\* path that matches no rule has page, tag, sort and key all null.
C20_FirstMatchingRuleDecides ==
    inv.pc = "classified" =>
        /\ (Len(inv.segs) = 2 /\ inv.segs[1] \in RecognizedSorts) =>
               inv.intent = Intent("posts", inv.segs[1], inv.segs[2], NoKey)
        /\ (Len(inv.segs) = 3 /\ BeginsWithAt(inv.segs[2])) =>
               inv.intent = Intent("thread", NULL, inv.segs[1],
                                   <<inv.segs[2], inv.segs[3]>>)
        /\ ~MatchesRule(inv.segs) => inv.intent = Intent(NULL, NULL, NULL, NoKey)

C20_Witness ==
    /\ inv.pc = "classified"
    /\ inv.segs = <<"hot", "@al", "t">>
    /\ inv.intent.page = "thread"

\* C21: a url made of a path, with or without one leading slash, one trailing
\* slash and a query string, classifies to what the bare path classifies to.
C21_SlashesAndQueryIgnored ==
    inv.pc = "classified" => inv.intent = parsePath(Join(inv.segs, "/"))

C21_Witness ==
    /\ inv.pc = "classified"
    /\ inv.url = "/@al/feed/?sort=hot/x"
    /\ inv.intent = Intent("account", "feed", "@al", NoKey)

\* C22: an invocation that is not in full render mode issues no profile fetch
\* and no topics fetch; its snapshot has no topics entry and an empty profiles
\* map, also when it is returned.
C22_ApiModeSkipsProfileAndTopics ==
    \A r \in DOMAIN inv :
        inv[r].pc # "idle" /\ ~inv[r].ssr =>
            /\ CallsOf(inv[r], {"get_profile", "get_trending_topics"}) = {}
            /\ "topics" \notin DOMAIN inv[r].state
            /\ inv[r].state.profiles = EmptyMap
            /\ inv[r].out.kind = "return" =>
                   /\ "topics" \notin DOMAIN inv[r].out.value
                   /\ inv[r].out.value.profiles = EmptyMap

C22_Witness ==
    \E r \in DOMAIN inv :
        /\ ~inv[r].ssr
        /\ inv[r].page = "account"
        /\ Happened(inv[r], "content", "end")
        /\ inv[r].out.kind = "return"

\* the callers that have called the registry all used start/stop with one and
\* the same base label and non-empty request id
SamePair ==
    LET acted == {i \in Timers : tmr[i].pc # "idle"}
    IN  /\ \A i \in acted : tmr[i].pc \in {"started", "stopped"} /\ Truthy(tmr[i].id)
        /\ \A i, j \in acted : tmr[i].base = tmr[j].base /\ tmr[i].id = tmr[j].id

\* C23: with timing enabled, timers started with one and the same (base label,
\* non-empty request id) pair share the label base_id, so the registry holds at
\* most that one span; a stop for the pair removes the span when it is there
\* and otherwise warns and changes nothing; the registry is empty once all of
\* them have stopped.
C23_SamePairSharesOneSpan ==
    /\ [](ENABLE_TIMING /\ SamePair =>
            /\ \A i \in Timers :
                   tmr[i].pc # "idle" =>
                       DOMAIN activeTimers \subseteq {tmr[i].base \o "_" \o tmr[i].id}
            /\ getActiveTimerCount <= 1
            /\ (\A i \in Timers : tmr[i].pc \in {"idle", "stopped"}) =>
                   getActiveTimerCount = 0)
    /\ [][ENABLE_TIMING /\ SamePair' =>
            \A i \in Timers :
                Moves(i, "started", "stopped") =>
                    /\ activeTimers' = EmptyMap
                    /\ tmr'[i].warned <=> activeTimers = EmptyMap]_vars

C23_Witness ==
    /\ ENABLE_TIMING
    /\ SamePair
    /\ \E i, j \in Timers :
           /\ tmr[i].pc = "stopped" /\ ~tmr[i].warned
           /\ tmr[j].pc = "stopped" /\ tmr[j].warned
    /\ getActiveTimerCount = 0

\* the index of the last post of posts with content key k
LastSeen(posts, k) ==
    CHOOSE i \in 1..Len(posts) :
        KeyOf(posts[i]) = k /\ \A j \in (i + 1)..Len(posts) : KeyOf(posts[j]) # k

\* C24: once the posts of a posts or account page are loaded, the keys of
\* content are the keys listed in discussion_idx[tag][sort] and are the
\* author/permlink keys of the returned posts, content[key] is the last
\* returned post with that key, and discussion_idx has the one tag entry (the
\* tag as classified, '@' included) with the one sort entry.
C24_ContentMatchesIndex ==
    \A r \in DOMAIN inv :
        inv[r].page \in {"posts", "account"} /\ Happened(inv[r], "content", "end") =>
            LET posts == inv[r].calls[1].reply.val
                content == inv[r].state.content
                index == inv[r].state.discussion_idx
            IN  /\ DOMAIN index = {inv[r].tag}
                /\ DOMAIN index[inv[r].tag] = {inv[r].sort}
                /\ inv[r].page = "account" => BeginsWithAt(inv[r].tag)
                /\ LET keys == index[inv[r].tag][inv[r].sort]
                   IN  DOMAIN content = {keys[i] : i \in 1..Len(keys)}
                /\ DOMAIN content = {KeyOf(posts[i]) : i \in 1..Len(posts)}
                /\ \A k \in DOMAIN content : content[k] = posts[LastSeen(posts, k)]

C24_Witness ==
    \E r \in DOMAIN inv :
        /\ inv[r].page = "account"
        /\ Happened(inv[r], "content", "end")
        /\ Len(inv[r].calls[1].reply.val) = 2
        /\ DOMAIN inv[r].state.content = {"al/p"}
        /\ inv[r].state.content["al/p"].body = "v2"
        /\ inv[r].calls[1].reply.val[1].body = "v1"

\* the community call of invocation record rec failed with this message
CommunityFailedWith(rec, message) ==
    /\ Happened(rec, "community", "failed")
    /\ \E i \in CallsOf(rec, {"get_community"}) : rec.calls[i].reply.val.message = message

\* C25: when the community fetch fails with the network failure and no later
\* step fails, the endpoint-reset hook has been invoked exactly once and the
\* invocation does not fail: when it is done it has returned.  A community
\* failure of another kind invokes the hook not at all.
C25_CommunityNetworkFailureResetsOnce ==
    \A r \in DOMAIN inv :
        (/\ Happened(inv[r], "community", "failed")
         /\ ~Happened(inv[r], "profile", "failed")
         /\ ~Happened(inv[r], "topics", "failed")) =>
            /\ inv[r].resets = IF CommunityFailedWith(inv[r], NetworkFailure) THEN 1 ELSE 0
            /\ inv[r].out.kind # "throw"
            /\ inv[r].pc = "done" => inv[r].out.kind = "return"

C25_Witness ==
    \E r \in DOMAIN inv :
        /\ CommunityFailedWith(inv[r], NetworkFailure)
        /\ inv[r].ssr
        /\ Happened(inv[r], "topics", "end")
        /\ inv[r].out.kind = "return"
        /\ inv[r].resets = 1

=============================================================================
